---------------------------- MODULE Spec2Model ----------------------------
(***************************************************************************)
(* The Case Assist flow screen (lwc/caseAssistFlow/caseAssistFlow.js) and  *)
(* the Apex endpoint it calls (classes/CaseAssistEndpoint.cls).            *)
(*                                                                         *)
(* The component is single-threaded: every handler runs to completion, so  *)
(* each handler is one action.  The only interleavings are between         *)
(* handlers, the debounce timer, and the completion of pending fetches.    *)
(***************************************************************************)
EXTENDS Integers, Sequences, FiniteSets, TLC

(***************************************************************************)
(* Bounds of the model.                                                    *)
(***************************************************************************)
\* Number of user actions (edits, acceptances, advance requests) explored.
MaxActions == 3

\* Amounts by which the clock may advance in one step, in milliseconds.
TickSteps == {250}

(***************************************************************************)
(* Program constants.                                                      *)
(***************************************************************************)
\* Debounce delay in milliseconds.
D == 500

\* Minimal length of Description for suggestions to be requested.
MinDescriptionLength == 10

COVEO_REASON_FIELD_NAME == "sfreason"

TICKET_CREATE_START == "ticket_create_start"

TICKET_FIELD_UPDATE == "ticket_field_update"

TICKET_CLASSIFICATION_CLICK == "ticket_classification_click"

TICKET_NEXT_STAGE == "ticket_next_stage"

(***************************************************************************)
(* JavaScript values.  Field values are strings; `undefined' is a reserved *)
(* string that no input carries.                                           *)
(***************************************************************************)
Undefined == "<undefined>"

Truthy(v) == v # Undefined /\ v # ""

\* Fields edited through handleFormInputChange and handlePicklistChange.
TextFields == {"Subject", "Description"}

PicklistFields == {"Reason"}

\* Values a text input may carry: a Subject is cleared or filled, a
\* Description has 9 or 10 characters.
TextValues(fieldName) ==
    IF fieldName = "Subject"
    THEN {"", "s"}
    ELSE {"123456789", "0123456789"}

PicklistValues == {"Billing"}

\* Values the Case Assist service may predict.
PredictedValues == {"Outage"}

\* Capability sets the workflow engine may hand to the screen.
ActionSets == {{}, {"BACK", "NEXT"}}

\* Snapshots the workflow engine may seed caseData with.
SeedValues == {"{\"Subject\":\"seed\"}"}

(***************************************************************************)
(* theCase is a JavaScript object: an insertion-ordered list of            *)
(* <<key, value>> pairs.                                                   *)
(***************************************************************************)
Has(obj, k) == \E i \in 1..Len(obj) : obj[i][1] = k

Get(obj, k) ==
    IF Has(obj, k)
    THEN obj[CHOOSE i \in 1..Len(obj) : obj[i][1] = k][2]
    ELSE Undefined

Put(obj, k, v) ==
    IF Has(obj, k)
    THEN [i \in 1..Len(obj) |-> IF obj[i][1] = k THEN <<k, v>> ELSE obj[i]]
    ELSE Append(obj, <<k, v>>)

RECURSIVE Members(_)
Members(obj) ==
    IF Len(obj) = 0 THEN ""
    ELSE LET m == "\"" \o obj[1][1] \o "\":\"" \o obj[1][2] \o "\""
         IN  IF Len(obj) = 1 THEN m ELSE m \o "," \o Members(Tail(obj))

\* JSON.stringify of an object whose values are strings.
JSONstringify(obj) == "{" \o Members(obj) \o "}"

Max(a, b) == IF a >= b THEN a ELSE b

Min(a, b) == IF a <= b THEN a ELSE b

Last(s) == s[Len(s)]

(***************************************************************************)
(* State.                                                                  *)
(***************************************************************************)
VARIABLES
    theCase,           \* @track theCase
    fieldSuggestions,  \* @track fieldSuggestions
    caseData,          \* this._caseData
    lastResponseId,    \* this.lastResponseId
    availableActions,  \* @api availableActions
    connected,         \* connectedCallback has run
    timeout,           \* debounce: handle of the last timer set
    timers,            \* pending timers: [id, remaining]
    inflight,          \* classification requests awaiting their response
    issued,            \* number of classification requests issued so far
    trace,             \* outward calls, in order: analytics sink, workflow
                       \* engine, classification client
    userLog,           \* history: the user actions, in order
    completed,         \* history: the successful responses, in order
    burst,             \* history: timing of the current debounce burst
    request,           \* arguments of a call to the Apex endpoint
    record,            \* a record the readiness getter is evaluated on
    outcome            \* what the call or the getter produced

vars ==
    <<theCase, fieldSuggestions, caseData, lastResponseId, availableActions,
      connected, timeout, timers, inflight, issued, trace, userLog,
      completed, burst, request, record, outcome>>

\* The state of a function applied on its own.
functions == <<request, record, outcome>>

\* What the component itself holds.
component == <<theCase, fieldSuggestions, caseData, lastResponseId>>

\* The empty array [], the empty object {} and null, as records, so that a
\* suggestion set (a record keyed by field name) compares with them.
EmptyArray == [proto |-> "Array"]

EmptyObject == [proto |-> "Object"]

Null == [proto |-> "null"]

NoRequest ==
    [subject |-> Undefined, description |-> Undefined,
     visitorId |-> Undefined]

NoOutcome == [fn |-> "none"]

\* The component as constructed (lines 19-36).
Constructed ==
    /\ theCase = <<>>
    /\ fieldSuggestions = EmptyArray
    /\ caseData = Undefined
    /\ lastResponseId = Undefined
    /\ availableActions = {}
    /\ connected = FALSE
    /\ timeout = 0
    /\ timers = {}
    /\ inflight = {}
    /\ issued = 0
    /\ trace = <<>>
    /\ userLog = <<>>
    /\ completed = <<>>
    /\ burst = [armed |-> FALSE, edits |-> 0, elapsed |-> 0, reqs |-> 0,
                firedAt |-> 0]

Init ==
    /\ Constructed
    /\ request = NoRequest
    /\ record = <<>>
    /\ outcome = NoOutcome


(***************************************************************************)
(* Analytics (lines 153-194).  Each operator is the sequence of calls the  *)
(* method makes to coveoua, in order.                                      *)
(***************************************************************************)
Call(name, arg) == [call |-> name, arg |-> arg]

Send(action) ==
    Call("send", [hitType |-> "event", category |-> "svc", action |-> action])

analyticsUpdateTicketData(case) ==
    << Call("svc:setTicket",
            [subject     |-> Get(case, "Subject"),
             description |-> Get(case, "Description"),
             reason      |-> Get(case, "Reason")]) >>

sendTicketCreateStart ==
    << Call("svc:setAction", [action |-> TICKET_CREATE_START]),
       Send("flowStart") >>

sendTicketFieldUpdated(case, fieldName) ==
    analyticsUpdateTicketData(case)
    \o << Call("svc:setAction",
               [action |-> TICKET_FIELD_UPDATE, fieldName |-> fieldName]),
          Send("click") >>

sendTicketClassificationClick(case, data, responseId) ==
    analyticsUpdateTicketData(case)
    \o << Call("svc:setAction",
               [action           |-> TICKET_CLASSIFICATION_CLICK,
                classificationId |-> data.classificationId,
                responseId       |-> responseId,
                value            |-> data.value,
                confidence       |-> data.confidence]),
          Send("click") >>

\* Variant: the ticket is not refreshed before the event.
sendTicketNextStage_StaleTicket(case) ==
    << Call("svc:setAction", [action |-> TICKET_NEXT_STAGE]),
       Send("click") >>

sendTicketNextStage(case) ==
    analyticsUpdateTicketData(case)
    \o << Call("svc:setAction", [action |-> TICKET_NEXT_STAGE]),
          Send("click") >>

(***************************************************************************)
(* Getters.                                                                *)
(***************************************************************************)
\* Variant: a Description of exactly MinDescriptionLength is not enough.
shouldShowSuggestions_Exclusive(case) ==
    /\ Truthy(Get(case, "Subject"))
    /\ Truthy(Get(case, "Description"))
    /\ Len(Get(case, "Description")) > MinDescriptionLength

shouldShowSuggestions(case) ==
    /\ Truthy(Get(case, "Subject"))
    /\ Truthy(Get(case, "Description"))
    /\ Len(Get(case, "Description")) >= MinDescriptionLength

reasonSuggestions(suggestions) ==
    IF COVEO_REASON_FIELD_NAME \in DOMAIN suggestions
    THEN suggestions[COVEO_REASON_FIELD_NAME].predictions
    ELSE <<>>

(***************************************************************************)
(* updateFlowState: the new snapshot and the notification dispatched to    *)
(* the workflow engine.                                                    *)
(***************************************************************************)
\* Variant: the snapshot is stored but the engine is not notified.
updateFlowState_Silent(case) ==
    [caseData |-> JSONstringify(case), calls |-> <<>>]

updateFlowState(case) ==
    LET snapshot == JSONstringify(case)
    IN  [caseData |-> snapshot,
         calls    |-> << Call("dispatchEvent",
                              [type  |-> "FlowAttributeChangeEvent",
                               name  |-> "caseData",
                               value |-> snapshot]) >>]

(***************************************************************************)
(* debounce(fn, 500), from c/utils: a call cancels the pending timer and   *)
(* sets a new one of delay D.                                              *)
(***************************************************************************)
\* The call of the debounced function, as the handler makes it.
debounceCall == << Call("debounceHandler", [delay |-> D]) >>

debounceHandler ==
    /\ timers' = {t \in timers : t.id # timeout}
                    \cup {[id |-> timeout + 1, remaining |-> D]}
    /\ timeout' = timeout + 1

(***************************************************************************)
(* Handlers.                                                               *)
(***************************************************************************)
\* The arguments of fetchCaseClassifications, read when the function runs.
classificationRequest(case) ==
    [subject     |-> Get(case, "Subject"),
     description |-> Get(case, "Description"),
     visitorId   |-> IF Truthy(Get(case, "visitorId"))
                     THEN Get(case, "visitorId") ELSE "foo"]

\* Variant: activation sends nothing.
connectedCallback_Silent ==
    /\ ~connected
    /\ connected' = TRUE
    /\ UNCHANGED <<component, availableActions, timeout, timers, inflight,
                   issued, completed, trace>>

connectedCallback ==
    /\ ~connected
    /\ connected' = TRUE
    /\ trace' = trace \o sendTicketCreateStart
    /\ UNCHANGED <<component, availableActions, timeout, timers, inflight,
                   issued, completed>>

\* Variant: the fetch is made at once instead of through the debounce.
handleFormInputChange_NoDebounce(fieldName, value) ==
    LET case == Put(theCase, fieldName, value)
        flow == updateFlowState(case)
        fetch == IF shouldShowSuggestions(case) THEN 1 ELSE 0
    IN  /\ theCase' = case
        /\ trace' = trace \o sendTicketFieldUpdated(case, fieldName)
                          \o flow.calls
                          \o [i \in 1..fetch |->
                                 Call("fetchCaseClassifications",
                                      classificationRequest(case))]
        /\ caseData' = flow.caseData
        /\ issued' = issued + fetch
        /\ inflight' = inflight
                        \cup {[seq |-> issued + i,
                               req |-> classificationRequest(case)]
                              : i \in 1..fetch}
        /\ UNCHANGED <<fieldSuggestions, lastResponseId, availableActions,
                       connected, timeout, timers, completed>>

\* Variant: a pending timer is left to run instead of being re-armed.
handleFormInputChange_ArmsOnce(fieldName, value) ==
    LET case == Put(theCase, fieldName, value)
        flow == updateFlowState(case)
        arm == shouldShowSuggestions(case) /\ timers = {}
    IN  /\ theCase' = case
        /\ trace' = trace \o sendTicketFieldUpdated(case, fieldName)
                          \o flow.calls
                          \o (IF arm THEN debounceCall ELSE <<>>)
        /\ caseData' = flow.caseData
        /\ IF arm
           THEN debounceHandler
           ELSE UNCHANGED <<timeout, timers>>
        /\ UNCHANGED <<fieldSuggestions, lastResponseId, availableActions,
                       connected, inflight, issued, completed>>

\* Variant: the workflow engine is notified before the event is emitted.
handleFormInputChange_NotifiesFirst(fieldName, value) ==
    LET case == Put(theCase, fieldName, value)
        flow == updateFlowState(case)
        arm == shouldShowSuggestions(case)
    IN  /\ theCase' = case
        /\ trace' = trace \o flow.calls
                          \o sendTicketFieldUpdated(case, fieldName)
                          \o (IF arm THEN debounceCall ELSE <<>>)
        /\ caseData' = flow.caseData
        /\ IF arm
           THEN debounceHandler
           ELSE UNCHANGED <<timeout, timers>>
        /\ UNCHANGED <<fieldSuggestions, lastResponseId, availableActions,
                       connected, inflight, issued, completed>>

handleFormInputChange(fieldName, value) ==
    LET case == Put(theCase, fieldName, value)
        flow == updateFlowState(case)
        arm == shouldShowSuggestions(case)
    IN  /\ theCase' = case
        /\ trace' = trace \o sendTicketFieldUpdated(case, fieldName)
                          \o flow.calls
                          \o (IF arm THEN debounceCall ELSE <<>>)
        /\ caseData' = flow.caseData
        /\ IF arm
           THEN debounceHandler
           ELSE UNCHANGED <<timeout, timers>>
        /\ UNCHANGED <<fieldSuggestions, lastResponseId, availableActions,
                       connected, inflight, issued, completed>>

\* Variant: a picklist edit is not reported to the analytics sink.
handlePicklistChange_NoEvent(fieldName, value) ==
    LET case == Put(theCase, fieldName, value)
        flow == updateFlowState(case)
    IN  /\ theCase' = case
        /\ trace' = trace \o flow.calls
        /\ caseData' = flow.caseData
        /\ UNCHANGED <<fieldSuggestions, lastResponseId, availableActions,
                       connected, timeout, timers, inflight, issued,
                       completed>>

handlePicklistChange(fieldName, value) ==
    LET case == Put(theCase, fieldName, value)
        flow == updateFlowState(case)
    IN  /\ theCase' = case
        /\ trace' = trace \o sendTicketFieldUpdated(case, fieldName)
                          \o flow.calls
        /\ caseData' = flow.caseData
        /\ UNCHANGED <<fieldSuggestions, lastResponseId, availableActions,
                       connected, timeout, timers, inflight, issued,
                       completed>>

\* Variant: accepting a suggestion asks for new suggestions.
handleSuggestionSelected_Arms(detail) ==
    LET case == Put(theCase, detail.fieldName, detail.value)
        flow == updateFlowState(case)
    IN  /\ theCase' = case
        /\ trace' = trace
                    \o sendTicketClassificationClick(case, detail,
                                                     lastResponseId)
                    \o flow.calls
        /\ caseData' = flow.caseData
        /\ debounceHandler
        /\ UNCHANGED <<fieldSuggestions, lastResponseId, availableActions,
                       connected, inflight, issued, completed>>

handleSuggestionSelected(detail) ==
    LET case == Put(theCase, detail.fieldName, detail.value)
        flow == updateFlowState(case)
    IN  /\ theCase' = case
        /\ trace' = trace
                    \o sendTicketClassificationClick(case, detail,
                                                     lastResponseId)
                    \o flow.calls
        /\ caseData' = flow.caseData
        /\ UNCHANGED <<fieldSuggestions, lastResponseId, availableActions,
                       connected, timeout, timers, inflight, issued,
                       completed>>

\* Variant: the NEXT token is not checked.
handleButtonNext_Ungated ==
    /\ trace' = trace \o sendTicketNextStage(theCase)
                      \o << Call("dispatchEvent",
                                 [type |-> "FlowNavigationNextEvent"]) >>
    /\ UNCHANGED <<component, availableActions, connected, timeout, timers,
                   inflight, issued, completed>>

handleButtonNext ==
    /\ IF "NEXT" \in availableActions
       THEN trace' = trace \o sendTicketNextStage(theCase)
                           \o << Call("dispatchEvent",
                                      [type |-> "FlowNavigationNextEvent"]) >>
       ELSE UNCHANGED trace
    /\ UNCHANGED <<component, availableActions, connected, timeout, timers,
                   inflight, issued, completed>>

(***************************************************************************)
(* The Apex endpoint (CaseAssistEndpoint.cls).  A JavaScript undefined     *)
(* reaches Apex as null.                                                   *)
(***************************************************************************)
\* Variant: an empty string is left out as null is.
addToMapIfNotNull_NorEmpty(addTo, toAdd, mapKey) ==
    IF toAdd # Undefined /\ toAdd # ""
    THEN {e \in addTo : e[1] # mapKey} \cup {<<mapKey, toAdd>>}
    ELSE addTo

addToMapIfNotNull(addTo, toAdd, mapKey) ==
    IF toAdd # Undefined
    THEN {e \in addTo : e[1] # mapKey} \cup {<<mapKey, toAdd>>}
    ELSE addTo

\* The request handed to the Case Assist client, or the exception thrown.
getCaseClassifications(subject, description, visitorId) ==
    LET fieldsMap ==
            addToMapIfNotNull(addToMapIfNotNull({}, subject, "subject"),
                              description, "description")
    IN  IF fieldsMap = {}
        THEN [thrown |-> TRUE, visitorId |-> visitorId, fields |-> {}]
        ELSE [thrown |-> FALSE, visitorId |-> visitorId, fields |-> fieldsMap]

\* The same for document suggestions (lines 59-88).
getDocumentSuggestions(subject, description, visitorId) ==
    LET fieldsMap ==
            addToMapIfNotNull(addToMapIfNotNull({}, subject, "subject"),
                              description, "description")
    IN  IF fieldsMap = {}
        THEN [thrown |-> TRUE, visitorId |-> visitorId, fields |-> {}]
        ELSE [thrown |-> FALSE, visitorId |-> visitorId, fields |-> fieldsMap]

(***************************************************************************)
(* The debounced function (lines 41-52).                                   *)
(***************************************************************************)
\* A timer expires: the debounced function runs up to its await.
TimerFire(t) ==
    /\ t.remaining = 0
    /\ timers' = timers \ {t}
    /\ issued' = issued + 1
    /\ inflight' = inflight
                    \cup {[seq |-> issued + 1,
                           req |-> classificationRequest(theCase)]}
    /\ trace' = Append(trace, Call("fetchCaseClassifications",
                                   classificationRequest(theCase)))
    /\ UNCHANGED <<component, availableActions, connected, timeout,
                   completed>>

parseFieldSuggestions(suggestionsData) ==
    /\ fieldSuggestions' =
           IF suggestionsData = Null THEN EmptyObject ELSE suggestionsData
    /\ UNCHANGED <<theCase, caseData, lastResponseId>>

\* The classifications the Case Assist service may return for a request.
ResponseId(seq) == "response-" \o ToString(seq)

Classifications(seq) ==
    {[responseId |-> ResponseId(seq), fields |-> Null]}
    \cup {[responseId |-> ResponseId(seq),
           fields |->
               [sfreason |->
                   [predictions |->
                       << [value            |-> v,
                           confidence       |-> "0.9",
                           classificationId |-> "classification-"
                                                 \o ToString(seq)] >>]]]
          : v \in PredictedValues}

\* The await resumes with the endpoint's result.
FetchSuccess(r, classifications) ==
    /\ r \in inflight
    /\ ~getCaseClassifications(r.req.subject, r.req.description,
                               r.req.visitorId).thrown
    /\ inflight' = inflight \ {r}
    /\ parseFieldSuggestions(classifications.fields)
    /\ completed' = Append(completed,
                           [seq        |-> r.seq,
                            responseId |-> classifications.responseId,
                            fields     |-> classifications.fields])
    /\ UNCHANGED <<availableActions, connected, timeout, timers, issued,
                   trace>>

\* Variant: a failure clears the suggestions.
FetchFail_ClearsSuggestions(r) ==
    /\ r \in inflight
    /\ inflight' = inflight \ {r}
    /\ fieldSuggestions' = EmptyObject
    /\ UNCHANGED <<theCase, caseData, lastResponseId, availableActions,
                   connected, timeout, timers, issued, trace, completed>>

\* The await resumes with an exception: console.error, nothing else.
FetchFail(r) ==
    /\ r \in inflight
    /\ inflight' = inflight \ {r}
    /\ UNCHANGED <<component, availableActions, connected, timeout, timers,
                   issued, trace, completed>>

(***************************************************************************)
(* The workflow engine and the clock.                                      *)
(***************************************************************************)
\* set caseData(caseData)
setCaseData(value) ==
    /\ caseData' = value
    /\ UNCHANGED <<theCase, fieldSuggestions, lastResponseId,
                   availableActions, connected, timeout, timers, inflight,
                   issued, trace, completed>>

\* @api availableActions
setAvailableActions(actions) ==
    /\ availableActions' = actions
    /\ UNCHANGED <<component, connected, timeout, timers, inflight, issued,
                   trace, completed>>

\* Time passes; a timer never expires before its delay.
Tick(d) ==
    /\ timers' = {[t EXCEPT !.remaining = Max(0, @ - d)] : t \in timers}
    /\ UNCHANGED <<component, availableActions, connected, timeout, inflight,
                   issued, trace, completed>>

(***************************************************************************)
(* History.  userLog records each user action with the calls it made       *)
(* (trace[from+1 .. to]).  burst times the current debounce burst: its     *)
(* number of edits that scheduled a fetch, the time elapsed since the last *)
(* of them (capped at D),                                                  *)
(* the requests issued since the burst began, and the elapsed time at the  *)
(* last of them.  An edit that schedules a fetch less than D after the     *)
(* previous one continues the burst; a later one begins a new burst.       *)
(***************************************************************************)
Entry(kind, fieldName, value) ==
    [kind       |-> kind,
     fieldName  |-> fieldName,
     value      |-> value,
     caseAfter  |-> theCase',
     permitted  |-> "NEXT" \in availableActions,
     responseId |-> IF kind = "accept" /\ completed # <<>>
                    THEN Last(completed).responseId ELSE Undefined,
     from       |-> Len(trace),
     to         |-> Len(trace')]

Observe(scheduled) ==
    LET base == IF scheduled
                THEN [armed   |-> TRUE,
                      edits   |-> IF burst.armed /\ burst.elapsed < D
                                  THEN burst.edits + 1 ELSE 1,
                      elapsed |-> 0,
                      reqs    |-> IF burst.armed /\ burst.elapsed < D
                                  THEN burst.reqs ELSE 0,
                      firedAt |-> burst.firedAt]
                ELSE burst
    IN  burst' = IF issued' > issued
                 THEN [base EXCEPT !.reqs = @ + (issued' - issued),
                                   !.firedAt = base.elapsed]
                 ELSE base

(***************************************************************************)
(* The steps of the system.                                                *)
(***************************************************************************)
Activate ==
    /\ connectedCallback
    /\ Observe(FALSE)
    /\ UNCHANGED <<userLog, functions>>

TextEdit ==
    \E f \in TextFields : \E v \in TextValues(f) :
        /\ connected /\ Len(userLog) < MaxActions
        /\ handleFormInputChange(f, v)
        /\ userLog' = Append(userLog, Entry("text", f, v))
        /\ Observe(shouldShowSuggestions(theCase'))
        /\ UNCHANGED functions

PicklistEdit ==
    \E f \in PicklistFields, v \in PicklistValues :
        /\ connected /\ Len(userLog) < MaxActions
        /\ handlePicklistChange(f, v)
        /\ userLog' = Append(userLog, Entry("picklist", f, v))
        /\ Observe(FALSE)
        /\ UNCHANGED functions

\* The badges shown under a picklist are the predictions of the store.
Accept ==
    \E f \in PicklistFields :
        \E i \in 1..Len(reasonSuggestions(fieldSuggestions)) :
            LET p == reasonSuggestions(fieldSuggestions)[i]
                detail == [fieldName        |-> f,
                           value            |-> p.value,
                           confidence       |-> p.confidence,
                           classificationId |-> p.classificationId]
            IN  /\ connected /\ Len(userLog) < MaxActions
                /\ handleSuggestionSelected(detail)
                /\ userLog' = Append(userLog, Entry("accept", f, p.value))
                /\ Observe(FALSE)
                /\ UNCHANGED functions

Advance ==
    /\ connected /\ Len(userLog) < MaxActions
    /\ handleButtonNext
    /\ userLog' = Append(userLog, Entry("next", "", ""))
    /\ Observe(FALSE)
    /\ UNCHANGED functions

Expire ==
    \E t \in timers :
        /\ TimerFire(t)
        /\ Observe(FALSE)
        /\ UNCHANGED <<userLog, functions>>

Respond ==
    \E r \in inflight : \E c \in Classifications(r.seq) :
        /\ FetchSuccess(r, c)
        /\ UNCHANGED <<userLog, burst, functions>>

Reject ==
    \E r \in inflight :
        /\ FetchFail(r)
        /\ UNCHANGED <<userLog, burst, functions>>

\* The flow runtime sets the screen's input attributes when it creates the
\* component, before it is connected.
Seed ==
    \E s \in SeedValues :
        /\ ~connected
        /\ caseData # s
        /\ setCaseData(s)
        /\ UNCHANGED <<userLog, burst, functions>>

Configure ==
    \E a \in ActionSets :
        /\ availableActions # a
        /\ setAvailableActions(a)
        /\ UNCHANGED <<userLog, burst, functions>>

Time ==
    \E d \in TickSteps :
        /\ burst.armed
        /\ burst.elapsed < D \/ \E t \in timers : t.remaining > 0
        /\ Tick(d)
        /\ burst' = [burst EXCEPT !.elapsed = Min(D, @ + d)]
        /\ UNCHANGED <<userLog, functions>>

Next ==
    \/ Activate
    \/ TextEdit
    \/ PicklistEdit
    \/ Accept
    \/ Advance
    \/ Expire
    \/ Respond
    \/ Reject
    \/ Seed
    \/ Configure
    \/ Time

Spec == Init /\ [][Next]_vars

(***************************************************************************)
(* The endpoint methods and the readiness getter applied on their own, to  *)
(* arguments drawn from bounded sets.                                      *)
(***************************************************************************)
MaxDescriptionLength == 11

RECURSIVE Chars(_)
Chars(n) == IF n = 0 THEN "" ELSE Chars(n - 1) \o "d"

\* A String argument of an @AuraEnabled method: null, empty or not.
StringInputs == {Undefined, "", "x", "printer jams"}

VisitorIds == {"foo", "visitor-1"}

RequestInputs ==
    [subject : StringInputs, description : StringInputs,
     visitorId : VisitorIds]

\* Records with Subject absent, empty or filled and Description absent or
\* of every length up to MaxDescriptionLength.
SubjectInputs == {<<>>, <<<<"Subject", "">>>>, <<<<"Subject", "s">>>>}

RecordInputs ==
    SubjectInputs
        \cup {Put(r, "Description", Chars(n)) :
                  r \in SubjectInputs, n \in 0..MaxDescriptionLength}

InitFunctions ==
    /\ Constructed
    /\ request \in RequestInputs
    /\ record \in RecordInputs
    /\ outcome = NoOutcome

\* What a call to an endpoint method does: the exception thrown to the
\* caller (its own, or the remote client's rethrown at lines 44-46, 85-87)
\* and the calls made to the remote Case Assist client.
Invoke(method, call, remoteThrows) ==
    [fn     |-> method,
     thrown |-> call.thrown \/ remoteThrows,
     sent   |-> IF call.thrown THEN {}
                ELSE {[visitorId |-> call.visitorId, fields |-> call.fields]}]

Classify ==
    \E remoteThrows \in BOOLEAN :
        /\ outcome = NoOutcome
        /\ outcome' =
               Invoke("getCaseClassifications",
                      getCaseClassifications(request.subject,
                                             request.description,
                                             request.visitorId),
                      remoteThrows)
        /\ UNCHANGED <<component, availableActions, connected, timeout,
                       timers, inflight, issued, trace, userLog, completed,
                       burst, request, record>>

Suggest ==
    \E remoteThrows \in BOOLEAN :
        /\ outcome = NoOutcome
        /\ outcome' =
               Invoke("getDocumentSuggestions",
                      getDocumentSuggestions(request.subject,
                                             request.description,
                                             request.visitorId),
                      remoteThrows)
        /\ UNCHANGED <<component, availableActions, connected, timeout,
                       timers, inflight, issued, trace, userLog, completed,
                       burst, request, record>>

Evaluate ==
    /\ outcome = NoOutcome
    /\ outcome' = [fn    |-> "shouldShowSuggestions",
                   value |-> shouldShowSuggestions(record)]
    /\ UNCHANGED <<component, availableActions, connected, timeout, timers,
                   inflight, issued, trace, userLog, completed, burst,
                   request, record>>

NextFunctions ==
    \/ Classify
    \/ Suggest
    \/ Evaluate

SpecFunctions == InitFunctions /\ [][NextFunctions]_vars

(***************************************************************************)
(* Views of the histories used by the properties below.                    *)
(***************************************************************************)
Range(s) == {s[i] : i \in 1..Len(s)}

\* The calls a user action made.
Segment(e) == SubSeq(trace, e.from + 1, e.to)

\* What parseFieldSuggestions stores for a response.
Stored(fields) == IF fields = Null THEN EmptyObject ELSE fields

\* The successful response to the most recently issued request.
Newest == CHOOSE c \in Range(completed) :
              \A o \in Range(completed) : o.seq <= c.seq

IsReady(subject, description) ==
    /\ subject # Undefined /\ subject # ""
    /\ description # Undefined /\ description # ""
    /\ Len(description) >= 10

\* Requests that ended in failure.
Failed == issued - Len(completed) - Cardinality(inflight)

(***************************************************************************)
(* C1.  Stale fetch results never overwrite newer ones: once every         *)
(* request issued has resolved successfully (two or more of them), the     *)
(* suggestion store holds the result of the request issued last, whatever  *)
(* the order in which the responses arrived.                               *)
(***************************************************************************)
C1_StoreHoldsNewestResult ==
    (issued >= 2 /\ inflight = {} /\ Len(completed) = issued)
        => fieldSuggestions = Stored(Newest.fields)

(***************************************************************************)
(* C2.  Debounce collapses bursts: at most one timer is pending in any     *)
(* state; once an edit has scheduled a fetch, the burst it belongs to has  *)
(* exactly one request, either still pending on the timer or issued; and   *)
(* a request is issued no earlier than D after the last edit of the burst. *)
(***************************************************************************)
C2_DebounceCollapsesBursts ==
    /\ Cardinality(timers) <= 1
    /\ burst.armed => burst.reqs + Cardinality(timers) = 1
    /\ burst.reqs >= 1 => burst.firedAt >= D

\* A burst of two edits less than D apart has produced its single request.
C2_Witness ==
    /\ burst.edits >= 2
    /\ burst.reqs = 1
    /\ timers = {}

(***************************************************************************)
(* C3.  No classification request is ever issued for a record that fails   *)
(* the readiness predicate: every request sent carries a non-empty Subject *)
(* and a Description of at least 10 characters (the values of the record   *)
(* at the moment it is sent).                                              *)
(***************************************************************************)
C3_RequestsOnlyWhenReady ==
    \A i \in 1..Len(trace) :
        trace[i].call = "fetchCaseClassifications"
            => IsReady(trace[i].arg.subject, trace[i].arg.description)

(***************************************************************************)
(* C4.  The stored snapshot always mirrors the record: whenever a snapshot *)
(* exists, caseData is the serialization of theCase.                       *)
(***************************************************************************)
C4_SnapshotMirrorsRecord ==
    caseData # Undefined => caseData = JSONstringify(theCase)

(***************************************************************************)
(* C5.  Exactly one snapshot notification per edit, in edit order: the     *)
(* notifications dispatched are, one for one and in order, the             *)
(* serializations of the record after each text edit, picklist edit and    *)
(* suggestion acceptance; each is dispatched by the edit itself, and no    *)
(* other operation dispatches one.                                         *)
(***************************************************************************)
IsNotification(c) ==
    c.call = "dispatchEvent" /\ c.arg.type = "FlowAttributeChangeEvent"

IsEdit(e) == e.kind \in {"text", "picklist", "accept"}

Notifications == SelectSeq(trace, IsNotification)

Edits == SelectSeq(userLog, IsEdit)

C5_OneNotificationPerEdit ==
    LET notified == Notifications
        edits == Edits
    IN  /\ Len(notified) = Len(edits)
        /\ \A i \in 1..Len(edits) :
               /\ i <= Len(notified)
               /\ notified[i].arg.name = "caseData"
               /\ notified[i].arg.value = JSONstringify(edits[i].caseAfter)
               /\ Len(SelectSeq(Segment(edits[i]), IsNotification)) = 1

\* Two text edits and an acceptance have been notified, a fetch having
\* completed in between.
C5_Witness ==
    /\ {e.kind : e \in Range(userLog)} = {"text", "accept"}
    /\ Len(Notifications) = 3

(***************************************************************************)
(* C6.  The responseId carried by a TICKET_CLASSIFICATION_CLICK event is   *)
(* the id of the classification response that most recently completed      *)
(* successfully before the acceptance, and is not undefined once a         *)
(* response has completed.                                                 *)
(***************************************************************************)
IsAction(c, name) == c.call = "svc:setAction" /\ c.arg.action = name

C6_ClickCarriesLastResponseId ==
    \A e \in Range(userLog) :
        e.kind = "accept" =>
            \A c \in Range(Segment(e)) :
                IsAction(c, TICKET_CLASSIFICATION_CLICK)
                    => c.arg.responseId = e.responseId

(***************************************************************************)
(* C7.  Advance gating: an advance request without the NEXT token makes no *)
(* call at all and changes no state; with the token, the request makes     *)
(* exactly one TICKET_NEXT_STAGE emission followed by exactly one          *)
(* navigation signal; nothing else emits either.                           *)
(***************************************************************************)
IsNavigation(c) ==
    c.call = "dispatchEvent" /\ c.arg.type = "FlowNavigationNextEvent"

IsSend(c) == c.call = "send"

IsNextStage(c) == IsAction(c, TICKET_NEXT_STAGE)

Permitted(e) == e.kind = "next" /\ e.permitted

C7_Gated ==
    /\ \A e \in Range(userLog) :
           e.kind = "next" =>
               IF e.permitted
               THEN LET seg == Segment(e)
                    IN  /\ Len(SelectSeq(seg, IsNextStage)) = 1
                        /\ Len(SelectSeq(seg, IsSend)) = 1
                        /\ Len(SelectSeq(seg, IsNavigation)) = 1
                        /\ \E i, j, k \in 1..Len(seg) :
                               /\ i < j /\ j < k
                               /\ IsNextStage(seg[i])
                               /\ IsSend(seg[j])
                               /\ IsNavigation(seg[k])
               ELSE Segment(e) = <<>>
    /\ Len(SelectSeq(trace, IsNextStage)) = Len(SelectSeq(userLog, Permitted))
    /\ Len(SelectSeq(trace, IsNavigation)) = Len(SelectSeq(userLog, Permitted))

C7_RefusedStep ==
    (/\ Len(userLog') = Len(userLog) + 1
     /\ Last(userLog').kind = "next"
     /\ "NEXT" \notin availableActions)
        => UNCHANGED <<theCase, fieldSuggestions, caseData, lastResponseId,
                       availableActions, connected, timeout, timers,
                       inflight, issued, trace, completed>>

\* C7: both parts, in every state and at every step.
C7_AdvanceGating == []C7_Gated /\ [][C7_RefusedStep]_vars

\* One advance request was refused and another permitted.
C7_Witness ==
    \E e1, e2 \in Range(userLog) :
        /\ e1.kind = "next" /\ ~e1.permitted
        /\ e2.kind = "next" /\ e2.permitted

(***************************************************************************)
(* C8.  Every field edit can trigger a fetch: after a text edit or a       *)
(* picklist edit, the debounce timer is re-armed (a new timer of delay D   *)
(* replaces any pending one) if the record is ready after the mutation,    *)
(* and no timer is armed if it is not.                                     *)
(***************************************************************************)
EditStep(kinds) ==
    /\ Len(userLog') = Len(userLog) + 1
    /\ Last(userLog').kind \in kinds

Rearmed ==
    /\ timeout' # timeout
    /\ timers' = {[id |-> timeout', remaining |-> D]}

NotArmed == timers' = timers /\ timeout' = timeout

C8_EveryFieldEditArms ==
    [][EditStep({"text", "picklist"})
          => IF shouldShowSuggestions(theCase') THEN Rearmed ELSE NotArmed]_vars

\* C8, as it holds of the code: a text edit re-arms the timer if the record
\* is ready after it and arms none otherwise; a picklist edit never arms
\* the timer.
C8_TextEditArms ==
    [][/\ EditStep({"text"})
          => IF shouldShowSuggestions(theCase') THEN Rearmed ELSE NotArmed
       /\ EditStep({"picklist"}) => NotArmed]_vars

\* A text edit has armed the timer again while a fetch was in flight.
C8_Witness ==
    /\ inflight # {}
    /\ timers # {}
    /\ timeout >= 2
    /\ Last(userLog).kind = "text"

(***************************************************************************)
(* C9.  A failed fetch is harmless and non-blocking: the failure of a      *)
(* request leaves the suggestion store, the record and the snapshot as     *)
(* they were and makes no call to the analytics sink or the workflow       *)
(* engine; and in every state, whatever fetches are in flight or have      *)
(* failed, the user's actions are enabled, leave the fetches in flight     *)
(* alone, and an edit writes its value and publishes the snapshot.         *)
(***************************************************************************)
FailureStep ==
    /\ Cardinality(inflight') < Cardinality(inflight)
    /\ completed' = completed

C9_FailureChangesNothing ==
    FailureStep
        => UNCHANGED <<fieldSuggestions, theCase, caseData, lastResponseId,
                       trace, timers, timeout, availableActions>>

C9_UserStepUnaffected ==
    EditStep({"text", "picklist", "accept", "next"})
        => /\ inflight' = inflight
           /\ fieldSuggestions' = fieldSuggestions
           /\ IsEdit(Last(userLog'))
                 => /\ theCase' = Put(theCase, Last(userLog').fieldName,
                                      Last(userLog').value)
                    /\ caseData' = JSONstringify(theCase')

C9_ActionsEnabled ==
    (connected /\ Len(userLog) < MaxActions)
        => /\ ENABLED TextEdit
           /\ ENABLED PicklistEdit
           /\ ENABLED Advance
           /\ Len(reasonSuggestions(fieldSuggestions)) > 0 => ENABLED Accept

\* C9: the three parts, in every state and at every step.
C9_FailedFetchHarmless ==
    /\ []C9_ActionsEnabled
    /\ [][C9_FailureChangesNothing /\ C9_UserStepUnaffected]_vars

\* A fetch has failed after suggestions had been stored, and another is in
\* flight.
C9_Witness ==
    /\ Failed >= 1
    /\ Len(reasonSuggestions(fieldSuggestions)) > 0

(***************************************************************************)
(* C10.  Every analytics event sees a fresh ticket snapshot: every 'send'  *)
(* is preceded, after the previous 'send', by a 'set ticket' call carrying *)
(* the Subject, Description and Reason the record holds at that moment.    *)
(***************************************************************************)
Ticket(case) ==
    [subject     |-> Get(case, "Subject"),
     description |-> Get(case, "Description"),
     reason      |-> Get(case, "Reason")]

\* The record at the time of the i-th call: that of the user action that
\* made the call, or the empty record of activation.
RecordAt(i) ==
    IF \E e \in Range(userLog) : e.from < i /\ i <= e.to
    THEN (CHOOSE e \in Range(userLog) : e.from < i /\ i <= e.to).caseAfter
    ELSE <<>>

FreshTicketBefore(i) ==
    \E j \in 1..(i - 1) :
        /\ trace[j].call = "svc:setTicket"
        /\ \A k \in (j + 1)..(i - 1) : ~IsSend(trace[k])
        /\ trace[j].arg = Ticket(RecordAt(i))

C10_EverySendSeesFreshTicket ==
    \A i \in 1..Len(trace) : IsSend(trace[i]) => FreshTicketBefore(i)

IsCreateStart(i) ==
    /\ i > 1
    /\ IsAction(trace[i - 1], TICKET_CREATE_START)
    /\ trace[i].arg.action = "flowStart"

\* C10, as it holds of the code: every 'send' of TICKET_FIELD_UPDATE,
\* TICKET_CLASSIFICATION_CLICK and TICKET_NEXT_STAGE is preceded, after the
\* previous 'send', by a 'set ticket' call carrying the record's values at
\* that moment; the 'send' of TICKET_CREATE_START follows no 'set ticket'.
C10_SendsAfterStartSeeFreshTicket ==
    \A i \in 1..Len(trace) :
        IsSend(trace[i]) =>
            IF IsCreateStart(i)
            THEN \A j \in 1..i : trace[j].call # "svc:setTicket"
            ELSE FreshTicketBefore(i)

\* A field update and a next-stage event were sent, the second carrying the
\* Subject written by the first.
C10_Witness ==
    \E i, j \in 1..Len(trace) :
        /\ i < j
        /\ IsAction(trace[i], TICKET_FIELD_UPDATE)
        /\ IsAction(trace[j], TICKET_NEXT_STAGE)
        /\ trace[j - 1].call = "svc:setTicket"
        /\ trace[j - 1].arg.subject = "s"

(***************************************************************************)
(* C11.  The analytics stream mirrors the user's actions one-to-one and in *)
(* order: the kinds of the events emitted are TICKET_CREATE_START followed *)
(* by one kind per user action, in action order (TICKET_FIELD_UPDATE for a *)
(* text or picklist edit, TICKET_CLASSIFICATION_CLICK for an acceptance,   *)
(* TICKET_NEXT_STAGE for a permitted advance), each followed at once by    *)
(* its 'send', however timer expiries and fetch completions interleave.    *)
(***************************************************************************)
IsSetAction(c) == c.call = "svc:setAction"

Emits(e) == e.kind # "next" \/ e.permitted

ExpectedKind(e) ==
    IF e.kind \in {"text", "picklist"} THEN TICKET_FIELD_UPDATE
    ELSE IF e.kind = "accept" THEN TICKET_CLASSIFICATION_CLICK
    ELSE TICKET_NEXT_STAGE

C11_EventsMirrorActions ==
    LET events == SelectSeq(trace, IsSetAction)
        actions == SelectSeq(userLog, Emits)
    IN  /\ Len(events) = Len(actions) + (IF connected THEN 1 ELSE 0)
        /\ Len(SelectSeq(trace, IsSend)) = Len(events)
        /\ \A i \in 1..Len(trace) :
               IsSetAction(trace[i])
                   => i < Len(trace) /\ IsSend(trace[i + 1])
        /\ \A i \in 1..Len(events) :
               events[i].arg.action =
                   IF i = 1 THEN TICKET_CREATE_START
                   ELSE ExpectedKind(actions[i - 1])

\* Two edits and an acceptance were reported, a timer having expired and a
\* fetch having completed in between.
C11_Witness ==
    /\ Len(userLog) = 3
    /\ userLog[3].kind = "accept"
    /\ Len(SelectSeq(trace, IsSetAction)) = 4

(***************************************************************************)
(* C12.  TICKET_CREATE_START is emitted exactly once, at activation, and   *)
(* precedes every other analytics event, every snapshot notification and   *)
(* every classification request: before activation nothing has been        *)
(* called; after it the first two calls are the emission of                *)
(* TICKET_CREATE_START and no later call emits it.                         *)
(***************************************************************************)
C12_CreateStartOnceAndFirst ==
    IF connected
    THEN /\ Len(trace) >= 2
         /\ trace[1] = Call("svc:setAction", [action |-> TICKET_CREATE_START])
         /\ trace[2] = Send("flowStart")
         /\ \A i \in 2..Len(trace) : ~IsAction(trace[i], TICKET_CREATE_START)
         /\ \A i \in 3..Len(trace) :
                IsSend(trace[i]) => trace[i].arg.action # "flowStart"
    ELSE trace = <<>> /\ userLog = <<>> /\ issued = 0

\* After activation an edit was reported and notified and a request issued.
C12_Witness ==
    /\ connected
    /\ issued >= 1
    /\ Len(Notifications) >= 1

(***************************************************************************)
(* C13.  Invalid requests are never sent: a call to getCaseClassifications *)
(* or getDocumentSuggestions in which subject and description are each     *)
(* null or the empty string throws to the caller and makes no call to the  *)
(* remote Case Assist client.                                              *)
(***************************************************************************)
EndpointMethods == {"getCaseClassifications", "getDocumentSuggestions"}

IsEmpty(s) == s = Undefined \/ s = ""

C13_InvalidRequestsNeverSent ==
    outcome.fn \in EndpointMethods
        /\ IsEmpty(request.subject) /\ IsEmpty(request.description)
        => outcome.thrown /\ outcome.sent = {}

(***************************************************************************)
(* C14.  Request field omission: a field is in the 'fields' map of the     *)
(* outgoing request only if it carries content (is neither null nor        *)
(* empty); with description = "" and subject = "x" the map holds only the  *)
(* subject entry.                                                          *)
(***************************************************************************)
C14_FieldsCarryContent ==
    outcome.fn \in EndpointMethods =>
        \A call \in outcome.sent :
            /\ \A e \in call.fields : ~IsEmpty(e[2])
            /\ request.subject = "x" /\ request.description = ""
                   => call.fields = {<<"subject", "x">>}

\* C14, as it holds of the code: a field is in the 'fields' map of the
\* outgoing request exactly when its argument is not null, an empty string
\* being sent as an empty value; with description = "" and subject = "x"
\* the map holds the subject entry and an empty description entry.
C14_FieldsIffNotNull ==
    outcome.fn \in EndpointMethods =>
        \A call \in outcome.sent :
            /\ call.fields =
                   {<<"subject", request.subject>> :
                        x \in {request.subject} \ {Undefined}}
                   \cup {<<"description", request.description>> :
                             x \in {request.description} \ {Undefined}}
            /\ request.subject = "x" /\ request.description = ""
                   => call.fields = {<<"subject", "x">>,
                                     <<"description", "">>}

\* A request was sent for subject "x" and an empty description.
C14_Witness ==
    /\ outcome.fn \in EndpointMethods
    /\ request.subject = "x" /\ request.description = ""
    /\ \E call \in outcome.sent : <<"description", "">> \in call.fields

(***************************************************************************)
(* C15.  Readiness predicate: shouldShowSuggestions is false whenever      *)
(* Description is absent or has length 0..9, whatever Subject is, false    *)
(* whenever Subject is absent or empty, and true exactly when Subject is   *)
(* non-empty and Description has length >= 10.                             *)
(***************************************************************************)
C15_ReadinessPredicate ==
    outcome.fn = "shouldShowSuggestions" =>
        LET subject == Get(record, "Subject")
            description == Get(record, "Description")
            short == \/ ~Has(record, "Description")
                     \/ Len(description) \in 0..9
            blank == ~Has(record, "Subject") \/ subject = ""
        IN  /\ short => outcome.value = FALSE
            /\ blank => outcome.value = FALSE
            /\ outcome.value = TRUE <=> ~blank /\ ~short

\* The getter answered true on a Description of exactly ten characters.
C15_Witness ==
    /\ outcome.fn = "shouldShowSuggestions"
    /\ outcome.value = TRUE
    /\ Len(Get(record, "Description")) = 10

(***************************************************************************)
(* C16.  Per-edit step order: the calls of every text or picklist edit are *)
(* exactly, in this order, the ticket refresh and the one                  *)
(* TICKET_FIELD_UPDATE emission, which carry the record as written and the *)
(* edited field's name, then the snapshot notification of that record,     *)
(* and only then, if at all, the arming of the debounce timer; the record  *)
(* the emission sees holds the new value.                                  *)
(***************************************************************************)
IsArming(c) == c.call = "debounceHandler"

C16_PerEditStepOrder ==
    \A e \in Range(userLog) :
        e.kind \in {"text", "picklist"} =>
            LET seg == Segment(e)
            IN  /\ Get(e.caseAfter, e.fieldName) = e.value
                /\ Len(seg) \in {4, 5}
                /\ seg[1] = Call("svc:setTicket", Ticket(e.caseAfter))
                /\ seg[2] = Call("svc:setAction",
                                 [action    |-> TICKET_FIELD_UPDATE,
                                  fieldName |-> e.fieldName])
                /\ seg[3] = Send("click")
                /\ IsNotification(seg[4])
                /\ seg[4].arg.value = JSONstringify(e.caseAfter)
                /\ Len(seg) = 5 => IsArming(seg[5])

\* A text edit that wrote, emitted, notified and then armed the timer, and
\* a picklist edit after it.
C16_Witness ==
    \E i, j \in 1..Len(userLog) :
        /\ i < j
        /\ userLog[i].kind = "text" /\ Len(Segment(userLog[i])) = 5
        /\ userLog[j].kind = "picklist"

(***************************************************************************)
(* C17.  Suggestion acceptance: accepting a suggestion writes its value    *)
(* into the record at its field and changes no other field; it then emits  *)
(* exactly one TICKET_CLASSIFICATION_CLICK carrying the classificationId,  *)
(* confidence and value of the accepted prediction, then dispatches        *)
(* exactly one snapshot notification, of the record holding the new value; *)
(* the suggestion store is unchanged, no timer is armed and no fetch is    *)
(* issued.                                                                 *)
(***************************************************************************)
IsClick(c) == IsAction(c, TICKET_CLASSIFICATION_CLICK)

IsFetch(c) == c.call = "fetchCaseClassifications"

FieldNames == TextFields \cup PicklistFields

\* The calls made by the step.
NewCalls == SubSeq(trace', Len(trace) + 1, Len(trace'))

C17_Acceptance ==
    LET e == Last(userLog')
        clicks == {i \in 1..Len(NewCalls) : IsClick(NewCalls[i])}
        notes == {i \in 1..Len(NewCalls) : IsNotification(NewCalls[i])}
    IN  /\ Get(theCase', e.fieldName) = e.value
        /\ \A k \in FieldNames \ {e.fieldName} :
               /\ Has(theCase', k) <=> Has(theCase, k)
               /\ Get(theCase', k) = Get(theCase, k)
        /\ Cardinality(clicks) = 1
        /\ Cardinality(notes) = 1
        /\ \A i \in clicks : \A j \in notes :
               /\ i < j
               /\ \E p \in Range(reasonSuggestions(fieldSuggestions)) :
                      /\ p.value = e.value
                      /\ NewCalls[i].arg.classificationId = p.classificationId
                      /\ NewCalls[i].arg.confidence = p.confidence
                      /\ NewCalls[i].arg.value = p.value
               /\ NewCalls[j].arg.value = JSONstringify(theCase')
        /\ \A i \in 1..Len(NewCalls) :
               ~IsArming(NewCalls[i]) /\ ~IsFetch(NewCalls[i])
        /\ fieldSuggestions' = fieldSuggestions
        /\ timers' = timers /\ timeout' = timeout
        /\ issued' = issued /\ inflight' = inflight

C17_AcceptanceEffects == [][EditStep({"accept"}) => C17_Acceptance]_vars

\* A suggestion was accepted into a record holding other fields.
C17_Witness ==
    /\ userLog # <<>>
    /\ Last(userLog).kind = "accept"
    /\ Has(theCase, "Reason")
    /\ Has(theCase, "Subject") /\ Has(theCase, "Description")

(***************************************************************************)
(* C18.  Request data is captured at schedule time: every classification   *)
(* request carries the Subject and Description the record held at the call *)
(* of the debounced function that armed the timer which issued it, even if *)
(* an edit that armed no timer changed the record before the timer fired.  *)
(***************************************************************************)
\* The call that armed the timer behind the i-th call, a fetch: at most one
\* timer is pending, so it is the last arming before it.
ArmingOf(i) ==
    CHOOSE j \in 1..(i - 1) :
        /\ IsArming(trace[j])
        /\ \A k \in (j + 1)..(i - 1) : ~IsArming(trace[k])

C18_RequestCapturedAtSchedule ==
    \A i \in 1..Len(trace) :
        IsFetch(trace[i]) =>
            LET scheduledOn == RecordAt(ArmingOf(i))
            IN  /\ trace[i].arg.subject = Get(scheduledOn, "Subject")
                /\ trace[i].arg.description = Get(scheduledOn, "Description")

=============================================================================
